---- MODULE Spec2Model ----
(***************************************************************************)
(* A model of the event-study scripts of AlgoGatorsCapstoneProject:        *)
(*   MassStatistics.py  the multi-window batch over a list of events       *)
(*   statistics.py      the single-event script                            *)
(*   attempt3.py        the fixed-lookback batch (main, batch_analyze)     *)
(*                                                                         *)
(* Dates are day numbers.  A data frame is a sequence of rows (records)    *)
(* in index order; a column is a field of the rows.  A float that may be   *)
(* missing is a sequence of length <= 1: <<>> is NaN, <<v>> is the number  *)
(* v.  Closes are powers of two no greater than 4, so that every daily     *)
(* return close[i]/close[i-1] - 1 is a whole number of quarters; returns,  *)
(* abnormal returns and their sums are kept exactly, in quarters.          *)
(***************************************************************************)
EXTENDS Integers, Sequences, FiniteSets, TLC

\* ------------------------------------------------------------------ bounds
\* Day numbers run 0 .. MaxDate.
MaxDate == 3
\* An events list holds at most MaxEvents events.
MaxEvents == 2

Dates == 0 .. MaxDate

\* ------------------------------------------------------- program constants
\* MassStatistics.py:258, windows = {'1w': 7, '1m': 30, '1y': 365}, in
\* insertion order, scaled to the model's calendar.
WindowLabels == <<"1w", "1m", "1y">>
WindowDays ==
    [l \in {"1w", "1m", "1y"} |-> IF l = "1w" THEN 1 ELSE IF l = "1m" THEN 2 ELSE 3]

\* calculate_rsi(data, window=14)
RsiWindow == 14

Tickers == {"A", "B"}

\* --------------------------------------------------------------- optionals
NaN == <<>>
Num(v) == <<v>>
IsNaN(x) == x = <<>>

\* x - y on floats: NaN when either side is NaN.
Sub(x, y) == IF IsNaN(x) \/ IsNaN(y) THEN NaN ELSE Num(x[1] - y[1])

\* Series.dropna()
DropNa(xs) == SelectSeq(xs, LAMBDA x : ~IsNaN(x))

\* Series.sum() (skipna=True): NaN entries are skipped, the empty sum is 0.
RECURSIVE SeriesSum(_)
SeriesSum(xs) ==
    IF xs = <<>> THEN 0
    ELSE (IF IsNaN(Head(xs)) THEN 0 ELSE Head(xs)[1]) + SeriesSum(Tail(xs))

RECURSIVE SumSq(_)
SumSq(xs) ==
    IF xs = <<>> THEN 0
    ELSE (IF IsNaN(Head(xs)) THEN 0 ELSE Head(xs)[1] * Head(xs)[1]) + SumSq(Tail(xs))

Column(frame, c) == [i \in 1 .. Len(frame) |-> frame[i][c]]
Index(frame) == {frame[i].Date : i \in 1 .. Len(frame)}

\* ------------------------------------------------------------- data source
\* The closing price and the volume the provider reports for a day.
StockClose(d) == IF d % 3 = 0 THEN 1 ELSE IF d % 3 = 1 THEN 4 ELSE 2
MarketClose(d) == IF d % 2 = 0 THEN 2 ELSE 1
VolumeOf(d) == d + 1

SetMax(S) == CHOOSE m \in S : \A x \in S : x <= m

\* The days ds in increasing order.
RECURSIVE SortedDates(_)
SortedDates(ds) ==
    IF ds = {} THEN <<>>
    ELSE Append(SortedDates(ds \ {SetMax(ds)}), SetMax(ds))

\* The frames yf.download returns for a stock and for the benchmark trading on
\* the days ds: one row per day, in increasing date order.
StockFrame(ds) ==
    [i \in 1 .. Cardinality(ds) |->
        [Date   |-> SortedDates(ds)[i],
         Close  |-> StockClose(SortedDates(ds)[i]),
         Volume |-> VolumeOf(SortedDates(ds)[i])]]
MarketFrame(ds) ==
    [i \in 1 .. Cardinality(ds) |->
        [Date   |-> SortedDates(ds)[i],
         Close  |-> MarketClose(SortedDates(ds)[i]),
         Volume |-> VolumeOf(SortedDates(ds)[i])]]

\* ------------------------------------------------------------ pure helpers
\* Series.pct_change(): NaN in the first row, close[i]/close[i-1] - 1 after
\* it (in quarters: exact for the closes above).
PctChange(closes) ==
    [i \in 1 .. Len(closes) |->
        IF i = 1 THEN NaN ELSE Num((4 * closes[i]) \div closes[i - 1] - 4)]

\* data[col] = values: the frame with the column added (or replaced).
WithColumn(frame, col, values) ==
    [i \in 1 .. Len(frame) |->
        [f \in (DOMAIN frame[i]) \cup {col} |->
            IF f = col THEN values[i] ELSE frame[i][f]]]

\* data.loc[start:end] on a sorted index: both ends inclusive, by position
\* (searchsorted left of start, searchsorted right of end).  LocHalfOpen is
\* the slice that leaves the end out, as a positional slice would.
SearchLeft(frame, x) == Cardinality({i \in 1 .. Len(frame) : frame[i].Date < x})
SearchRight(frame, x) == Cardinality({i \in 1 .. Len(frame) : frame[i].Date <= x})
LocHalfOpen(frame, start, end) ==
    SubSeq(frame, SearchLeft(frame, start) + 1, SearchLeft(frame, end))
Loc(frame, start, end) ==
    SubSeq(frame, SearchLeft(frame, start) + 1, SearchRight(frame, end))

\* frame.loc[mask]: the rows whose mask entry is true, in order.
RECURSIVE MaskFrom(_, _, _)
MaskFrom(frame, mask, i) ==
    IF i > Len(frame) THEN <<>>
    ELSE (IF mask[i] THEN <<frame[i]>> ELSE <<>>) \o MaskFrom(frame, mask, i + 1)
LocMask(frame, mask) == MaskFrom(frame, mask, 1)

\* Series.cumsum() (skipna=True): the running total skips NaN entries and the
\* result is NaN where the entry is.
RECURSIVE CumSumFrom(_, _, _)
CumSumFrom(xs, i, acc) ==
    IF i > Len(xs) THEN <<>>
    ELSE IF IsNaN(xs[i]) THEN <<NaN>> \o CumSumFrom(xs, i + 1, acc)
    ELSE <<Num(acc + xs[i][1])>> \o CumSumFrom(xs, i + 1, acc + xs[i][1])
CumSum(xs) == CumSumFrom(xs, 1, 0)

\* The statistics of a sample are kept as the sufficient statistic they are
\* a function of.  Series.std() (ddof=1) and the t statistic and p-value of
\* scipy.stats.ttest_1samp(sample, 0) are NaN for fewer than two
\* observations; Series.mean() is NaN for none.
Moments(xs) == [n |-> Len(xs), sum |-> SeriesSum(xs), sumsq |-> SumSq(xs)]
Std(xs) == IF Len(DropNa(xs)) < 2 THEN NaN ELSE Num(Moments(DropNa(xs)))
Mean(xs) == IF Len(xs) = 0 THEN NaN ELSE Num([n |-> Len(xs), sum |-> SeriesSum(xs)])
Ttest1Samp(sample) ==
    [statistic |-> IF Len(sample) < 2 THEN NaN ELSE Num(Moments(sample)),
     pvalue    |-> IF Len(sample) < 2 THEN NaN ELSE Num(Moments(sample))]

\* A Series: the values of a column with their dates.
SeriesOf(frame, col) ==
    [i \in 1 .. Len(frame) |-> [Date |-> frame[i].Date, Value |-> frame[i][col]]]
SeriesDropNa(series) == SelectSeq(series, LAMBDA r : ~IsNaN(r.Value))
Values(series) == [i \in 1 .. Len(series) |-> series[i].Value]

\* --------------------------------------------------- MassStatistics.py, defs
\* calculate_rsi: delta = Close.diff(1); gain and loss are delta's positive
\* and negative parts (0 where delta is NaN); the rolling means run over the
\* last RsiWindow rows (min_periods=1).  The RSI is a function of the ratio
\* of the two rolling sums, which is what the column holds here.
Delta(frame, i) == IF i = 1 THEN 0 ELSE frame[i].Close - frame[i - 1].Close
RECURSIVE RollingSum(_, _, _, _)
RollingSum(frame, i, k, gain) ==
    IF k = 0 \/ i < 1 THEN 0
    ELSE (IF gain THEN (IF Delta(frame, i) > 0 THEN Delta(frame, i) ELSE 0)
                  ELSE (IF Delta(frame, i) < 0 THEN 0 - Delta(frame, i) ELSE 0))
         + RollingSum(frame, i - 1, k - 1, gain)
calculate_rsi(data) ==
    WithColumn(data, "RSI",
        [i \in 1 .. Len(data) |->
            [gain |-> RollingSum(data, i, RsiWindow, TRUE),
             loss |-> RollingSum(data, i, RsiWindow, FALSE)]])

\* pd.merge(stock_returns, market_returns, left_index=True, right_index=True):
\* the inner join on the date index, one row per date of both frames.
MergeReturns(stock, market) ==
    LET both == SelectSeq(stock, LAMBDA r : r.Date \in Index(market))
        MarketRow(d) == CHOOSE m \in {market[j] : j \in 1 .. Len(market)} : m.Date = d
    IN  [i \in 1 .. Len(both) |->
            [Date           |-> both[i].Date,
             Stock_Returns  |-> both[i].Returns,
             Market_Returns |-> MarketRow(both[i].Date).Returns]]

\* calculate_returns: adds the Returns column to both of its arguments and
\* returns the merged frame with the abnormal and cumulative abnormal returns.
calculate_returns(stock_data, market_data) ==
    LET stock  == WithColumn(stock_data, "Returns", PctChange(Column(stock_data, "Close")))
        market == WithColumn(market_data, "Returns", PctChange(Column(market_data, "Close")))
        joined == MergeReturns(stock, market)
        ar     == [i \in 1 .. Len(joined) |->
                      Sub(joined[i].Stock_Returns, joined[i].Market_Returns)]
        withAr == WithColumn(joined, "Abnormal_Returns", ar)
    IN  [stock_data  |-> stock,
         market_data |-> market,
         merged_data |-> WithColumn(withAr, "Cumulative_Abnormal_Returns", CumSum(ar))]

\* get_event_window: the rows of [event_date - window, event_date + window]
\* and, for each, its distance in days from the event date.
get_event_window(data, event_date, window) ==
    LET rows == Loc(data, event_date - window, event_date + window)
    IN  [window |-> rows,
         days   |-> [i \in 1 .. Len(rows) |-> rows[i].Date - event_date]]

\* f"{window}d" and ed.strftime("%Y-%m-%d")
FormatWindow(window) == <<window, "d">>
Strftime(ed) == <<"%Y-%m-%d", ed>>

\* analyze_event, lines 41-44 and 56-63: the rows of the stock frame before
\* and after the event date that the volatilities and the average volumes
\* are taken over.
PrePartition(stock_data, ed, window) == Loc(stock_data, ed - window, ed - 1)
PostPartition(stock_data, ed, window) == Loc(stock_data, ed + 1, ed + window)

\* analyze_event: the record it appends to summary_rows (row) and the four
\* values it returns.
analyze_event(stock_data, merged, ed, window, ticker) ==
    LET got        == get_event_window(merged, ed, window)
        ew         == got.window
        days       == got.days
        post       == LocMask(ew, [i \in 1 .. Len(ew) |-> days[i] >= 0])
        CAR_post   == SeriesSum(Column(post, "Abnormal_Returns"))
        ar_post    == DropNa(Column(post, "Abnormal_Returns"))
        test       == Ttest1Samp(ar_post)
        pre_R      == SeriesDropNa(SeriesOf(PrePartition(stock_data, ed, window), "Returns"))
        post_R     == SeriesDropNa(SeriesOf(PostPartition(stock_data, ed, window), "Returns"))
        pre_V      == Column(PrePartition(stock_data, ed, window), "Volume")
        post_V     == Column(PostPartition(stock_data, ed, window), "Volume")
    IN  [row |-> [Ticker      |-> ticker,
                  Window      |-> FormatWindow(window),
                  Event_Date  |-> Strftime(ed),
                  CAR         |-> CAR_post,
                  T_stat      |-> test.statistic,
                  P_value     |-> test.pvalue,
                  Pre_Vol     |-> Std(Values(pre_R)),
                  Post_Vol    |-> Std(Values(post_R)),
                  Pre_Volume  |-> Mean([i \in 1 .. Len(pre_V) |-> Num(pre_V[i])]),
                  Post_Volume |-> Mean([i \in 1 .. Len(post_V) |-> Num(post_V[i])])],
         ew     |-> ew,
         days   |-> days,
         pre_R  |-> pre_R,
         post_R |-> post_R]

\* pd.to_datetime of an event's date string: raises for a string that is no
\* date.  A date string is [valid, day].
DateStrings == [valid : {TRUE}, day : Dates] \cup {[valid |-> FALSE, day |-> 0]}
Parses(s) == s.valid
to_datetime(s) == s.day

\* A slip of line 268: "and" for "or".
DataMissingBoth(stock, market) == stock = <<>> /\ market = <<>>

\* line 268: stock_data.empty or market_data.empty
DataMissing(stock, market) == stock = <<>> \/ market = <<>>

\* line 275: event_date not in stock_data.index
DateAbsent(ed, stock) == ed \notin Index(stock)

\* A slip of line 65: the record inserted at the head of the list.
PrependRow(rows, row) == <<row>> \o rows

\* line 65: summary_rows.append(row)
AppendRow(rows, row) == Append(rows, row)

\* plot_data raises when all_event_data is empty (line 147 reads the loop
\* variable event_data, which no loop has bound) and when the last event's
\* days_offset is empty (days_offset[0]).
PlotRaises(all) ==
    IF all = <<>> THEN "UnboundLocalError"
    ELSE IF all[Len(all)].days_offset = <<>> THEN "IndexError"
    ELSE "none"

\* -------------------------------------------------------------------- state
VARIABLES
    script,          \* which script runs: "MassStatistics" or "statistics"
    provider,        \* the price data source: symbol -> the frame it returns
    events,          \* MassStatistics.py:158, the events list
    pc,              \* the position in the script
    wi,              \* the index, in windows, of the window of the running batch
    ei,              \* the index, in events, of the event of the running iteration
    stock_symbol, event_date, window,
    stock_data, market_data, merged_data,
    all_event_data,  \* MassStatistics.py:261
    summary_rows,    \* MassStatistics.py:6
    printed,         \* what print_summary_table was given to print
    fetches,         \* history: the calls of yf.download made so far
    phases,          \* history: the steps the running iteration has taken
    exc,             \* the exception that ended the script, or "none"
    out,             \* statistics.py: the values the script computes
    results,         \* attempt3.py:67, the dict of batch_analyze, in insertion order
    summary,         \* attempt3.py:149
    vol_test,        \* attempt3.py:153, what perform_volatility_tests returns
    caught           \* attempt3.py:167, the exception main has caught, or "none"

vars == <<script, provider, events, pc, wi, ei, stock_symbol, event_date, window,
          stock_data, market_data, merged_data, all_event_data, summary_rows,
          printed, fetches, phases, exc, out, results, summary, vol_test, caught>>

a3vars == <<results, summary, vol_test, caught>>

market_symbol == "^GSPC"

EventSpecs == [stock_symbol : Tickers, event_date : DateStrings]

RECURSIVE SeqsUpTo(_, _)
SeqsUpTo(S, n) ==
    IF n = 0 THEN {<<>>}
    ELSE SeqsUpTo(S, n - 1)
         \cup {Append(q, x) : q \in {r \in SeqsUpTo(S, n - 1) : Len(r) = n - 1}, x \in S}

\* A provider with a history for ticker A on the days sd, for ticker B on
\* the days bd and for the benchmark on the days md.
ProviderOf(sd, bd, md) ==
    [sym \in Tickers \cup {market_symbol} |->
        IF sym = market_symbol THEN MarketFrame(md)
        ELSE IF sym = "A" THEN StockFrame(sd)
        ELSE StockFrame(bd)]

\* Every history of ticker A and of the benchmark: any set of trading days,
\* none included.  The provider has nothing for ticker B.
Providers == {ProviderOf(sd, {}, md) : sd \in SUBSET Dates, md \in SUBSET Dates}

\* A few histories, for the longer events lists: ticker A trades every day or
\* on the odd days, the benchmark every day or never.
FewProviders ==
    {ProviderOf(sd, {}, md) : sd \in {Dates, {d \in Dates : d % 2 = 1}},
                              md \in {Dates, {}}}

OutInit ==
    [event_window |-> <<>>, event_window_data |-> <<>>, event_window_CAR |-> 0,
     abnormal_returns |-> <<>>, t_stat |-> NaN, p_value |-> NaN,
     pre_event_returns |-> <<>>, post_event_returns |-> <<>>,
     pre_volatility |-> NaN, post_volatility |-> NaN]

InitCommon ==
    /\ wi = 0
    /\ ei = 0
    /\ stock_symbol = ""
    /\ stock_data = <<>>
    /\ market_data = <<>>
    /\ merged_data = <<>>
    /\ all_event_data = <<>>
    /\ summary_rows = <<>>
    /\ printed = <<>>
    /\ fetches = 0
    /\ phases = <<>>
    /\ exc = "none"
    /\ out = OutInit
    /\ results = <<>>
    /\ summary = <<>>
    /\ vol_test = <<>>
    /\ caught = "none"

\* MassStatistics.py up to line 258: the events list and the configuration.
InitMass ==
    /\ script = "MassStatistics"
    /\ \/ events \in SeqsUpTo(EventSpecs, 1) /\ provider \in Providers
       \/ events \in SeqsUpTo(EventSpecs, MaxEvents) /\ provider \in FewProviders
    /\ pc = "for_window"
    /\ event_date = 0
    /\ window = 0
    /\ InitCommon

\* statistics.py lines 6-9: the script's window, symbols and event date.
InitStatistics ==
    /\ script = "statistics"
    /\ events = <<>>
    /\ provider \in Providers
    /\ pc = "stat_download"
    /\ event_date \in Dates
    /\ window \in {WindowDays[l] : l \in DOMAIN WindowDays}
    /\ InitCommon


\* ------------------------------------------------- MassStatistics.py, batch
\* line 260-261: the next window's batch starts with an empty all_event_data;
\* after the last window the summary table is printed.
ForWindow ==
    /\ script = "MassStatistics"
    /\ pc = "for_window"
    /\ IF wi < Len(WindowLabels)
       THEN /\ wi' = wi + 1
            /\ window' = WindowDays[WindowLabels[wi + 1]]
            /\ all_event_data' = <<>>
            /\ ei' = 0
            /\ pc' = "for_event"
       ELSE /\ pc' = "print"
            /\ UNCHANGED <<wi, window, all_event_data, ei>>
    /\ UNCHANGED a3vars
    /\ UNCHANGED <<script, provider, events, stock_symbol, event_date, stock_data,
                   market_data, merged_data, summary_rows, printed, fetches,
                   phases, exc, out>>

\* lines 262-264: the next event's symbol and date; pd.to_datetime raises on
\* a string that is no date, and nothing catches it.
ForEvent ==
    /\ script = "MassStatistics"
    /\ pc = "for_event"
    /\ IF ei < Len(events)
       THEN /\ ei' = ei + 1
            /\ stock_symbol' = events[ei + 1].stock_symbol
            /\ phases' = <<>>
            /\ IF Parses(events[ei + 1].event_date)
               THEN /\ event_date' = to_datetime(events[ei + 1].event_date)
                    /\ pc' = "download"
                    /\ exc' = exc
               ELSE /\ event_date' = event_date
                    /\ pc' = "aborted"
                    /\ exc' = "ValueError"
       ELSE /\ pc' = "plot"
            /\ UNCHANGED <<ei, stock_symbol, phases, event_date, exc>>
    /\ UNCHANGED a3vars
    /\ UNCHANGED <<script, provider, events, wi, window, stock_data, market_data,
                   merged_data, all_event_data, summary_rows, printed, fetches, out>>

\* line 266, download_data: two calls of yf.download.
Download ==
    /\ script = "MassStatistics"
    /\ pc = "download"
    /\ stock_data' = provider[stock_symbol]
    /\ market_data' = provider[market_symbol]
    /\ fetches' = fetches + 2
    /\ phases' = Append(phases, "FETCH")
    /\ pc' = "check_empty"
    /\ UNCHANGED a3vars
    /\ UNCHANGED <<script, provider, events, wi, ei, stock_symbol, event_date, window,
                   merged_data, all_event_data, summary_rows, printed, exc, out>>

\* lines 268-270: an event with an empty stock or benchmark frame is skipped.
CheckEmpty ==
    /\ script = "MassStatistics"
    /\ pc = "check_empty"
    /\ IF DataMissing(stock_data, market_data)
       THEN /\ phases' = phases \o <<"VALIDATE_NONEMPTY", "SKIPPED">>
            /\ pc' = "for_event"
       ELSE /\ phases' = Append(phases, "VALIDATE_NONEMPTY")
            /\ pc' = "normalize"
    /\ UNCHANGED a3vars
    /\ UNCHANGED <<script, provider, events, wi, ei, stock_symbol, event_date, window,
                   stock_data, market_data, merged_data, all_event_data,
                   summary_rows, printed, fetches, exc, out>>

\* lines 272-273: calculate_rsi and calculate_returns, which add their
\* columns to the frames they are given.
Normalize ==
    /\ script = "MassStatistics"
    /\ pc = "normalize"
    /\ LET r == calculate_returns(calculate_rsi(stock_data), market_data)
       IN  /\ stock_data' = r.stock_data
           /\ market_data' = r.market_data
           /\ merged_data' = r.merged_data
    /\ phases' = Append(phases, "NORMALIZE")
    /\ pc' = "check_date"
    /\ UNCHANGED a3vars
    /\ UNCHANGED <<script, provider, events, wi, ei, stock_symbol, event_date, window,
                   all_event_data, summary_rows, printed, fetches, exc, out>>

\* lines 275-277: an event whose date is no trading day of the stock is skipped.
CheckDate ==
    /\ script = "MassStatistics"
    /\ pc = "check_date"
    /\ IF DateAbsent(event_date, stock_data)
       THEN /\ phases' = phases \o <<"VALIDATE_DATE", "SKIPPED">>
            /\ pc' = "for_event"
       ELSE /\ phases' = Append(phases, "VALIDATE_DATE")
            /\ pc' = "analyze"
    /\ UNCHANGED a3vars
    /\ UNCHANGED <<script, provider, events, wi, ei, stock_symbol, event_date, window,
                   stock_data, market_data, merged_data, all_event_data,
                   summary_rows, printed, fetches, exc, out>>

\* lines 279-291: analyze_event appends the event's record to summary_rows;
\* its results and the stock's event window are appended to all_event_data.
Analyze ==
    /\ script = "MassStatistics"
    /\ pc = "analyze"
    /\ LET r == analyze_event(stock_data, merged_data, event_date, window, stock_symbol)
       IN  /\ summary_rows' = AppendRow(summary_rows, r.row)
           /\ all_event_data' = Append(all_event_data,
                  [event_window_data       |-> r.ew,
                   event_stock_window_data |->
                       get_event_window(stock_data, event_date, window).window,
                   days_offset             |-> r.days,
                   pre_event_returns       |-> r.pre_R,
                   post_event_returns      |-> r.post_R,
                   ticker                  |-> stock_symbol])
    /\ phases' = phases \o <<"COMPUTE", "RECORDED">>
    /\ pc' = "for_event"
    /\ UNCHANGED a3vars
    /\ UNCHANGED <<script, provider, events, wi, ei, stock_symbol, event_date, window,
                   stock_data, market_data, merged_data, printed, fetches, exc, out>>

\* line 293: plot_data, whose exception nothing catches.
Plot ==
    /\ script = "MassStatistics"
    /\ pc = "plot"
    /\ exc' = PlotRaises(all_event_data)
    /\ pc' = IF PlotRaises(all_event_data) = "none" THEN "for_window" ELSE "aborted"
    /\ UNCHANGED a3vars
    /\ UNCHANGED <<script, provider, events, wi, ei, stock_symbol, event_date, window,
                   stock_data, market_data, merged_data, all_event_data,
                   summary_rows, printed, fetches, phases, out>>

\* line 295: print_summary_table prints all of summary_rows.
PrintSummary ==
    /\ script = "MassStatistics"
    /\ pc = "print"
    /\ printed' = summary_rows
    /\ pc' = "done"
    /\ UNCHANGED a3vars
    /\ UNCHANGED <<script, provider, events, wi, ei, stock_symbol, event_date, window,
                   stock_data, market_data, merged_data, all_event_data,
                   summary_rows, fetches, phases, exc, out>>

\* ------------------------------------------------------------ statistics.py
\* lines 11-17: the two downloads and the Returns column of each frame.
StatDownload ==
    /\ script = "statistics"
    /\ pc = "stat_download"
    /\ stock_symbol' = "A"
    /\ stock_data' = WithColumn(provider["A"], "Returns",
                                PctChange(Column(provider["A"], "Close")))
    /\ market_data' = WithColumn(provider[market_symbol], "Returns",
                                 PctChange(Column(provider[market_symbol], "Close")))
    /\ fetches' = fetches + 2
    /\ pc' = "stat_window"
    /\ UNCHANGED a3vars
    /\ UNCHANGED <<script, provider, events, wi, ei, event_date, window, merged_data,
                   all_event_data, summary_rows, printed, phases, exc, out>>

\* lines 19-30: get_event_window of the stock frame.
StatWindow ==
    /\ script = "statistics"
    /\ pc = "stat_window"
    /\ out' = [out EXCEPT !.event_window =
                  Loc(stock_data, event_date - window, event_date + window)]
    /\ pc' = "stat_merge"
    /\ UNCHANGED a3vars
    /\ UNCHANGED <<script, provider, events, wi, ei, stock_symbol, event_date, window,
                   stock_data, market_data, merged_data, all_event_data,
                   summary_rows, printed, fetches, phases, exc>>

\* stock_data['Returns'] - market_data['Returns']: the difference on the
\* union of the two indexes, NaN on a date only one of them has.
ReturnsDifference(stock, market, d) ==
    IF d \in Index(stock) /\ d \in Index(market)
    THEN Sub((CHOOSE r \in {stock[i] : i \in 1 .. Len(stock)} : r.Date = d).Returns,
             (CHOOSE r \in {market[i] : i \in 1 .. Len(market)} : r.Date = d).Returns)
    ELSE NaN

\* lines 33-37: the inner join of the two Returns columns (Stock_Returns and
\* Market_Returns here, Returns_x and Returns_y in the script), the abnormal
\* returns (assigned by date) and their cumulative sum.
StatMerge ==
    /\ script = "statistics"
    /\ pc = "stat_merge"
    /\ LET joined == MergeReturns(stock_data, market_data)
           ar     == [i \in 1 .. Len(joined) |->
                         ReturnsDifference(stock_data, market_data, joined[i].Date)]
       IN  merged_data' = WithColumn(WithColumn(joined, "Abnormal_Returns", ar),
                                     "Cumulative_Abnormal_Returns", CumSum(ar))
    /\ pc' = "stat_test"
    /\ UNCHANGED a3vars
    /\ UNCHANGED <<script, provider, events, wi, ei, stock_symbol, event_date, window,
                   stock_data, market_data, all_event_data, summary_rows, printed,
                   fetches, phases, exc, out>>

\* lines 39-48: the event window of the merged frame and its CAR; the t-test
\* on the abnormal returns of the whole history.
StatTest ==
    /\ script = "statistics"
    /\ pc = "stat_test"
    /\ LET event_window_data ==
               Loc(merged_data, event_date - window, event_date + window)
           abnormal_returns == DropNa(Column(merged_data, "Abnormal_Returns"))
       IN  out' = [out EXCEPT
                     !.event_window_data = event_window_data,
                     !.event_window_CAR =
                         SeriesSum(Column(event_window_data, "Abnormal_Returns")),
                     !.abnormal_returns = abnormal_returns,
                     !.t_stat = Ttest1Samp(abnormal_returns).statistic,
                     !.p_value = Ttest1Samp(abnormal_returns).pvalue]
    /\ pc' = "stat_volatility"
    /\ UNCHANGED a3vars
    /\ UNCHANGED <<script, provider, events, wi, ei, stock_symbol, event_date, window,
                   stock_data, market_data, merged_data, all_event_data,
                   summary_rows, printed, fetches, phases, exc>>

\* The two partitions of lines 50-51.
StatPreReturns(stock, ed, w) == SeriesDropNa(SeriesOf(Loc(stock, ed - w, ed), "Returns"))
StatPostReturns(stock, ed, w) == SeriesDropNa(SeriesOf(Loc(stock, ed, ed + w), "Returns"))

\* lines 50-55: the pre- and post-event returns and their volatility.
StatVolatility ==
    /\ script = "statistics"
    /\ pc = "stat_volatility"
    /\ LET pre_event_returns == StatPreReturns(stock_data, event_date, window)
           post_event_returns == StatPostReturns(stock_data, event_date, window)
       IN  out' = [out EXCEPT
                     !.pre_event_returns = pre_event_returns,
                     !.post_event_returns = post_event_returns,
                     !.pre_volatility = Std(Values(pre_event_returns)),
                     !.post_volatility = Std(Values(post_event_returns))]
    /\ pc' = "done"
    /\ UNCHANGED a3vars
    /\ UNCHANGED <<script, provider, events, wi, ei, stock_symbol, event_date, window,
                   stock_data, market_data, merged_data, all_event_data,
                   summary_rows, printed, fetches, phases, exc>>

\* -------------------------------------------------------------- attempt3.py
\* df.tail(n) and df.head(n)
TailRows(frame, n) ==
    SubSeq(frame, (IF Len(frame) > n THEN Len(frame) - n ELSE 0) + 1, Len(frame))
HeadRows(frame, n) == SubSeq(frame, 1, IF Len(frame) > n THEN n ELSE Len(frame))

\* lines 20-23: the last window rows before the event date and the first
\* window rows after it.  RowsBeforeUncut is a slip of line 20: the rows
\* before the event date without tail(window).
RowsBeforeUncut(frame, ed, w) == SelectSeq(frame, LAMBDA r : r.Date < ed)
RowsBefore(frame, ed, w) == TailRows(SelectSeq(frame, LAMBDA r : r.Date < ed), w)
RowsAfter(frame, ed, w) == HeadRows(SelectSeq(frame, LAMBDA r : r.Date > ed), w)

\* lines 36-41: close.iloc[-1] / close.iloc[0] - 1 over a window (in
\* quarters).
SimpleReturn(rows) == (4 * rows[Len(rows)].Close) \div rows[1].Close - 4

\* attempt3.py analyze_event: it works on copies of the two frames.  None is
\* <<>>, a result r is <<r>>.
a3_analyze_event(df_stock, df_sp500, ed, w) ==
    LET stock  == WithColumn(df_stock, "Return", PctChange(Column(df_stock, "Close")))
        sp500  == WithColumn(df_sp500, "Return", PctChange(Column(df_sp500, "Close")))
        before_stock == RowsBefore(stock, ed, w)
        after_stock  == RowsAfter(stock, ed, w)
        before_sp500 == RowsBefore(sp500, ed, w)
        after_sp500  == RowsAfter(sp500, ed, w)
    IN  IF \/ Len(before_stock) < w
           \/ Len(after_stock) < w
           \/ Len(before_sp500) < w
           \/ Len(after_sp500) < w
        THEN <<>>
        ELSE <<[Volatility_Before      |-> Std(Column(before_stock, "Return")),
                Volatility_After       |-> Std(Column(after_stock, "Return")),
                AGR_Before             |-> SimpleReturn(before_stock),
                AGR_After              |-> SimpleReturn(after_stock),
                Relative_Return_Before |->
                    SimpleReturn(before_stock) - SimpleReturn(before_sp500),
                Relative_Return_After  |->
                    SimpleReturn(after_stock) - SimpleReturn(after_sp500),
                Before_Window          |-> before_stock,
                After_Window           |-> after_stock]>>

\* results[ticker] = res on a dict kept in insertion order: a new key goes
\* last, a key the dict has keeps its place.
DictSet(d, key, value) ==
    IF \E i \in 1 .. Len(d) : d[i].key = key
    THEN [i \in 1 .. Len(d) |-> IF d[i].key = key THEN [key |-> key, value |-> value] ELSE d[i]]
    ELSE Append(d, [key |-> key, value |-> value])

\* create_summary_table: one row per key of results, in the dict's order,
\* without the two window columns.
create_summary_table(res) ==
    [i \in 1 .. Len(res) |->
        [Ticker                 |-> res[i].key,
         Volatility_Before      |-> res[i].value.Volatility_Before,
         Volatility_After       |-> res[i].value.Volatility_After,
         AGR_Before             |-> res[i].value.AGR_Before,
         AGR_After              |-> res[i].value.AGR_After,
         Relative_Return_Before |-> res[i].value.Relative_Return_Before,
         Relative_Return_After  |-> res[i].value.Relative_Return_After]]

\* perform_volatility_tests: ttest_rel(b, a, nan_policy='omit') over the
\* pairs neither value of which is NaN; NaN for fewer than two such pairs.
\* The statistic is kept as the pairs it is a function of.
perform_volatility_tests(res) ==
    LET pairs == SelectSeq([i \in 1 .. Len(res) |->
                               <<res[i].value.Volatility_Before,
                                 res[i].value.Volatility_After>>],
                           LAMBDA q : ~IsNaN(q[1]) /\ ~IsNaN(q[2]))
    IN  IF Len(pairs) < 2 THEN NaN ELSE Num(pairs)

\* yf.download(ticker, start=start_date, end=end_date): the rows of the
\* history from start (included) to end (excluded).
DownloadRange(frame, start, end) ==
    SelectSeq(frame, LAMBDA r : start <= r.Date /\ r.Date < end)

\* lines 127-128
SetMin(S) == CHOOSE m \in S : \A x \in S : m <= x
EventDays == {events[i].event_date.day : i \in 1 .. Len(events)}
start_date == SetMin(EventDays) - window * 2
end_date == SetMax(EventDays) + window * 2

\* The events dicts: at most MaxEvents events, no ticker twice.
EventDicts ==
    {q \in SeqsUpTo(EventSpecs, MaxEvents) :
        \A i, j \in 1 .. Len(q) : i # j => q[i].stock_symbol # q[j].stock_symbol}

\* The histories attempt3.py runs on: any for ticker A, all days or none for
\* ticker B, all days, the even days or none for the benchmark.
A3Providers ==
    {ProviderOf(sd, bd, md) : sd \in SUBSET Dates, bd \in {Dates, {}},
                              md \in {Dates, {d \in Dates : d % 2 = 0}, {}}}

\* main, lines 119-126: the events and the window (30 days in the script,
\* one or two of the model's).
InitAttempt3 ==
    /\ script = "attempt3"
    /\ events \in EventDicts
    /\ provider \in A3Providers
    /\ pc = "a3_convert"
    /\ event_date = 0
    /\ window \in {1, 2}
    /\ InitCommon

\* main, lines 123-128: the dates are converted, and the date range taken
\* from them, outside the try block: pd.to_datetime raises on a string that
\* is no date and min() raises on no event at all.
A3Convert ==
    /\ script = "attempt3"
    /\ pc = "a3_convert"
    /\ IF ~(\A i \in 1 .. Len(events) : Parses(events[i].event_date)) \/ events = <<>>
       THEN exc' = "ValueError" /\ pc' = "aborted"
       ELSE exc' = exc /\ pc' = "a3_download"
    /\ UNCHANGED <<script, provider, events, wi, ei, stock_symbol, event_date, window,
                   stock_data, market_data, merged_data, all_event_data,
                   summary_rows, printed, fetches, phases, out>>
    /\ UNCHANGED a3vars

\* main, lines 134-141: one download per ticker and one of the benchmark
\* (sp500_data, kept in market_data); reset_index makes Date a column.
A3Download ==
    /\ script = "attempt3"
    /\ pc = "a3_download"
    /\ stock_data' = [t \in {events[i].stock_symbol : i \in 1 .. Len(events)} |->
                         DownloadRange(provider[t], start_date, end_date)]
    /\ market_data' = DownloadRange(provider[market_symbol], start_date, end_date)
    /\ fetches' = fetches + Len(events) + 1
    /\ ei' = 0
    /\ pc' = "a3_batch"
    /\ UNCHANGED <<script, provider, events, wi, stock_symbol, event_date, window,
                   merged_data, all_event_data, summary_rows, printed, phases, exc, out>>
    /\ UNCHANGED a3vars

\* batch_analyze, lines 68-75: one event analyzed, and kept when
\* analyze_event returns a result.
A3Analyze ==
    /\ script = "attempt3"
    /\ pc = "a3_batch"
    /\ ei < Len(events)
    /\ ei' = ei + 1
    /\ stock_symbol' = events[ei + 1].stock_symbol
    /\ event_date' = to_datetime(events[ei + 1].event_date)
    /\ LET res == a3_analyze_event(stock_data[events[ei + 1].stock_symbol], market_data,
                                   to_datetime(events[ei + 1].event_date), window)
       IN  results' = IF res # <<>>
                      THEN DictSet(results, events[ei + 1].stock_symbol, res[1])
                      ELSE results
    /\ UNCHANGED <<script, provider, events, pc, wi, window, stock_data, market_data,
                   merged_data, all_event_data, summary_rows, printed, fetches,
                   phases, exc, out, summary, vol_test, caught>>

\* lines 76-77 and 146-149: batch_analyze returns and the summary table is
\* made; with no result DataFrame.drop finds no column to drop and raises
\* KeyError, which main catches.
A3Summary ==
    /\ script = "attempt3"
    /\ pc = "a3_batch"
    /\ ei = Len(events)
    /\ IF results = <<>>
       THEN /\ caught' = "KeyError"
            /\ pc' = "done"
            /\ summary' = summary
       ELSE /\ summary' = create_summary_table(results)
            /\ pc' = "a3_tests"
            /\ caught' = caught
    /\ UNCHANGED <<script, provider, events, wi, ei, stock_symbol, event_date, window,
                   stock_data, market_data, merged_data, all_event_data,
                   summary_rows, printed, fetches, phases, exc, out, results, vol_test>>

\* lines 153-165: the paired test on the volatilities, then the plots.
A3Tests ==
    /\ script = "attempt3"
    /\ pc = "a3_tests"
    /\ vol_test' = perform_volatility_tests(results)
    /\ pc' = "done"
    /\ UNCHANGED <<script, provider, events, wi, ei, stock_symbol, event_date, window,
                   stock_data, market_data, merged_data, all_event_data,
                   summary_rows, printed, fetches, phases, exc, out, results,
                   summary, caught>>

\* ------------------------------------------------------------ specification
Init == InitMass \/ InitStatistics \/ InitAttempt3

Next ==
    \/ ForWindow
    \/ ForEvent
    \/ Download
    \/ CheckEmpty
    \/ Normalize
    \/ CheckDate
    \/ Analyze
    \/ Plot
    \/ PrintSummary
    \/ StatDownload
    \/ StatWindow
    \/ StatMerge
    \/ StatTest
    \/ StatVolatility
    \/ A3Convert
    \/ A3Download
    \/ A3Analyze
    \/ A3Summary
    \/ A3Tests

Spec == Init /\ [][Next]_vars

\* ------------------------------------------------------------------- claims
\* The records of summary_rows that carry the label of a window of w days.
RunRecords(w) == SelectSeq(summary_rows, LAMBDA r : r.Window = FormatWindow(w))

\* The events with empty source data: the provider has nothing for the stock
\* or nothing for the benchmark.
EmptySource(i) ==
    provider[events[i].stock_symbol] = <<>> \/ provider[market_symbol] = <<>>
AllParse == \A i \in 1 .. Len(events) : events[i].event_date.valid

\* C1: a batch over N >= 1 well-formed events of which M have empty source
\* data lets no exception escape, and when the batch's loop over the events
\* has ended summary_rows holds exactly N - M records of that batch.
C1_FaultIsolation ==
    (script = "MassStatistics" /\ Len(events) >= 1 /\ AllParse) =>
        /\ exc = "none"
        /\ pc = "plot" =>
              Len(RunRecords(window)) =
                  Len(events) - Cardinality({i \in 1 .. Len(events) : EmptySource(i)})

\* The event of the iteration that has just ended, when one has.
EventEnded == script = "MassStatistics" /\ pc = "for_event" /\ ei >= 1
HasData(i) ==
    provider[events[i].stock_symbol] # <<>> /\ provider[market_symbol] # <<>>
DatePresent(i) ==
    \E j \in 1 .. Len(provider[events[i].stock_symbol]) :
        provider[events[i].stock_symbol][j].Date = events[i].event_date.day
Recordable(i) == HasData(i) /\ DatePresent(i)
Last(q) == q[Len(q)]

\* phases holds a, b and c at increasing positions.
InOrder(a, b, C) ==
    \E i, j, k \in 1 .. Len(phases) :
        i < j /\ j < k /\ phases[i] = a /\ phases[j] = b /\ phases[k] \in C

\* C2 as stated: an event that has ended has passed through FETCH, NORMALIZE
\* and a validation in that order and ended RECORDED or SKIPPED, and the
\* batch holds a record for each ended event with data whose date is a
\* trading day of the stock, and for no other.
C2_AsStated ==
    EventEnded =>
        /\ InOrder("FETCH", "NORMALIZE", {"VALIDATE_NONEMPTY", "VALIDATE_DATE"})
        /\ Last(phases) \in {"RECORDED", "SKIPPED"}
        /\ Len(RunRecords(window)) = Cardinality({i \in 1 .. ei : Recordable(i)})

\* C2, amended: an event that has ended was fetched and checked for empty
\* data; one with empty data was then skipped; one with data was normalized
\* and its date checked, and then skipped when the date is no trading day
\* of the stock, computed and recorded when it is.  The batch holds a record
\* for each ended event that was recorded, and for no other, the last of
\* them being that of the event that has just ended.
C2_StateMachine ==
    EventEnded =>
        /\ phases =
              IF ~HasData(ei) THEN <<"FETCH", "VALIDATE_NONEMPTY", "SKIPPED">>
              ELSE IF ~DatePresent(ei)
              THEN <<"FETCH", "VALIDATE_NONEMPTY", "NORMALIZE", "VALIDATE_DATE", "SKIPPED">>
              ELSE <<"FETCH", "VALIDATE_NONEMPTY", "NORMALIZE", "VALIDATE_DATE",
                     "COMPUTE", "RECORDED">>
        /\ Len(RunRecords(window)) = Cardinality({i \in 1 .. ei : Recordable(i)})
        /\ Len(all_event_data) = Len(RunRecords(window))
        /\ Recordable(ei) =>
              /\ Last(summary_rows).Ticker = events[ei].stock_symbol
              /\ Last(summary_rows).Event_Date = Strftime(events[ei].event_date.day)
              /\ Last(summary_rows).Window = FormatWindow(window)

\* C2, witness: a batch in which an event was skipped for empty data, and
\* the next event has ended recorded.
C2_Witness ==
    /\ EventEnded
    /\ ei = 2
    /\ ~HasData(1)
    /\ Recordable(2)
    /\ Last(phases) = "RECORDED"

\* The key of a record and of an event.
RowKey(r) == <<r.Ticker, r.Event_Date>>
EventKey(e) ==
    IF e.event_date.valid THEN <<e.stock_symbol, Strftime(e.event_date.day)>>
    ELSE <<e.stock_symbol, "malformed">>

\* a is b with some of its entries left out.
RECURSIVE IsSubsequence(_, _)
IsSubsequence(a, b) ==
    IF a = <<>> THEN TRUE
    ELSE IF b = <<>> THEN FALSE
    ELSE IF Head(a) = Head(b) THEN IsSubsequence(Tail(a), Tail(b))
    ELSE IsSubsequence(a, Tail(b))

Keys(rows) == [i \in 1 .. Len(rows) |-> RowKey(rows[i])]
EventKeys == [i \in 1 .. Len(events) |-> EventKey(events[i])]
WindowsRun == {WindowDays[WindowLabels[k]] : k \in 1 .. wi}

ResultKeys == [i \in 1 .. Len(results) |-> results[i].key]

\* C3: the records of each batch, in summary_rows and in what is printed,
\* are in the order of their events in the events list, and the batches'
\* records follow each other in the order of the batches; the results of
\* batch_analyze and the rows of its summary table are in the order of
\* their events in the events dict.
C3_OutputOrder ==
    /\ script = "attempt3" =>
        /\ IsSubsequence(ResultKeys, [i \in 1 .. Len(events) |-> events[i].stock_symbol])
        /\ pc = "a3_tests" => [i \in 1 .. Len(summary) |-> summary[i].Ticker] = ResultKeys
    /\ script = "MassStatistics" =>
        /\ \A w \in WindowsRun : IsSubsequence(Keys(RunRecords(w)), EventKeys)
        /\ \A i, j \in 1 .. Len(summary_rows) :
              (i < j /\ summary_rows[i].Window # summary_rows[j].Window) =>
                  \E k, l \in 1 .. wi :
                      /\ k < l
                      /\ summary_rows[i].Window = FormatWindow(WindowDays[WindowLabels[k]])
                      /\ summary_rows[j].Window = FormatWindow(WindowDays[WindowLabels[l]])
        /\ pc = "done" => printed = summary_rows

\* C3, witness: a batch has recorded two events with different keys.
C3_Witness ==
    /\ script = "MassStatistics"
    /\ Len(RunRecords(window)) = 2
    /\ RowKey(RunRecords(window)[1]) # RowKey(RunRecords(window)[2])
    /\ pc = "plot"

\* C4: when an event's date does not parse, the price data source is never
\* called.
C4_AbortBeforeFetch ==
    (script \in {"MassStatistics", "attempt3"} /\ ~AllParse) => fetches = 0

\* attempt3.py main calls the price data source only when every date parses.
A3AbortBeforeFetch ==
    (script = "attempt3" /\ ~AllParse) => fetches = 0

\* C5: when a window's batch has ended, the summary table holds only records
\* with that window's label.
C5_TablePerWindow ==
    (script = "MassStatistics" /\ pc = "plot") =>
        \A i \in 1 .. Len(summary_rows) : summary_rows[i].Window = FormatWindow(window)

\* The event whose record and results the last iteration has appended.
JustRecorded == EventEnded /\ Last(phases) = "RECORDED"

\* The sample of the t-test of an entry of all_event_data: the abnormal
\* returns of its event window on and after the event date that are not NaN.
PostSample(e) ==
    DropNa(Column(LocMask(e.event_window_data,
                          [i \in 1 .. Len(e.event_window_data) |-> e.days_offset[i] >= 0]),
                  "Abnormal_Returns"))

\* C6: no event is recorded whose t-test sample has no observation.
C6_EmptySampleSkipped ==
    script = "MassStatistics" =>
        \A k \in 1 .. Len(all_event_data) : PostSample(all_event_data[k]) # <<>>

\* C7: the pre-event and the post-event partitions share no date and neither
\* holds the event date: those of the returns and volumes of an event the
\* batch has recorded, those of the returns of the single-event script, and
\* the before and after windows of a result of attempt3.py.
C7_PartitionsDisjoint ==
    /\ JustRecorded =>
          /\ Index(PrePartition(stock_data, event_date, window))
                 \cap Index(PostPartition(stock_data, event_date, window)) = {}
          /\ event_date \notin Index(PrePartition(stock_data, event_date, window))
          /\ event_date \notin Index(PostPartition(stock_data, event_date, window))
          /\ Index(Last(all_event_data).pre_event_returns)
                 \cap Index(Last(all_event_data).post_event_returns) = {}
          /\ event_date \notin Index(Last(all_event_data).pre_event_returns)
          /\ event_date \notin Index(Last(all_event_data).post_event_returns)
    /\ (script = "statistics" /\ pc = "done") =>
          /\ Index(out.pre_event_returns) \cap Index(out.post_event_returns) = {}
          /\ event_date \notin Index(out.pre_event_returns)
          /\ event_date \notin Index(out.post_event_returns)
    /\ script = "attempt3" =>
          \A i \in 1 .. Len(results) : \A j \in 1 .. Len(events) :
              events[j].stock_symbol = results[i].key =>
                  /\ Index(results[i].value.Before_Window)
                         \cap Index(results[i].value.After_Window) = {}
                  /\ events[j].event_date.day \notin Index(results[i].value.Before_Window)
                  /\ events[j].event_date.day \notin Index(results[i].value.After_Window)

\* The partitions of MassStatistics.py and of attempt3.py are disjoint and
\* hold no event date.
StrictPartitionsDisjoint == script # "statistics" => C7_PartitionsDisjoint

Range(q) == {q[i] : i \in 1 .. Len(q)}

\* rows are the rows of data dated A - W to A + W, in the order of data.
IsWindow(rows, data, A, W) ==
    /\ \A i \in 1 .. Len(rows) :
          /\ A - W <= rows[i].Date
          /\ rows[i].Date <= A + W
          /\ rows[i] \in Range(data)
    /\ \A j \in 1 .. Len(data) :
          (A - W <= data[j].Date /\ data[j].Date <= A + W) => data[j] \in Range(rows)
    /\ \A i, j \in 1 .. Len(rows) : i < j => rows[i].Date < rows[j].Date

\* days are the distances in days of the rows from A.
AreOffsets(days, rows, A) ==
    /\ Len(days) = Len(rows)
    /\ \A i \in 1 .. Len(rows) : days[i] = rows[i].Date - A

\* C8: the event window of a recorded event holds exactly the rows of the
\* merged frame (and of the stock frame) dated within window days of the
\* event date, both ends included, and days_offset gives each row's distance
\* in days from the event date; the single-event script's event window holds
\* exactly the rows of the stock frame within window days of the event date.
C8_EventWindow ==
    /\ JustRecorded =>
          /\ IsWindow(Last(all_event_data).event_window_data, merged_data,
                      event_date, window)
          /\ AreOffsets(Last(all_event_data).days_offset,
                        Last(all_event_data).event_window_data, event_date)
          /\ IsWindow(Last(all_event_data).event_stock_window_data, stock_data,
                      event_date, window)
    /\ (script = "statistics" /\ pc \in {"stat_merge", "stat_test", "stat_volatility", "done"}) =>
          IsWindow(out.event_window, stock_data, event_date, window)

\* C8, witness: a recorded event whose date is not in the merged frame, with
\* rows before and after it in the window and a row of the frame outside it.
C8_Witness ==
    /\ JustRecorded
    /\ event_date \notin Index(merged_data)
    /\ \E i, j \in 1 .. Len(Last(all_event_data).days_offset) :
          /\ Last(all_event_data).days_offset[i] < 0
          /\ Last(all_event_data).days_offset[j] > 0
    /\ Len(merged_data) > Len(Last(all_event_data).event_window_data)

\* The states in which merged_data is the join of stock_data and market_data.
MergedFresh ==
    \/ script = "MassStatistics" /\ pc \in {"check_date", "analyze"}
    \/ JustRecorded
    \/ script = "statistics" /\ pc \in {"stat_test", "stat_volatility", "done"}

\* Every date of the joined frame is a date of both frames.
JoinDatesInBoth ==
    MergedFresh =>
        \A i \in 1 .. Len(merged_data) :
            /\ merged_data[i].Date \in Index(stock_data)
            /\ merged_data[i].Date \in Index(market_data)

\* C9: every row of the joined frame has a date of both frames, on which
\* both returns are numbers, and its abnormal return is a number.
C9_JoinInvariant ==
    /\ JoinDatesInBoth
    /\ MergedFresh =>
          \A i \in 1 .. Len(merged_data) :
              /\ ~IsNaN(merged_data[i].Stock_Returns)
              /\ ~IsNaN(merged_data[i].Market_Returns)
              /\ ~IsNaN(merged_data[i].Abnormal_Returns)

\* The sum of the abnormal returns of rows 1 .. k that are numbers.
RECURSIVE PrefixTotal(_, _)
PrefixTotal(frame, k) ==
    IF k = 0 THEN 0
    ELSE PrefixTotal(frame, k - 1)
         + (IF IsNaN(frame[k].Abnormal_Returns) THEN 0 ELSE frame[k].Abnormal_Returns[1])

\* C10: in every row of the joined frame the cumulative abnormal return is a
\* number, the sum of the abnormal returns up to that row that are numbers.
C10_PrefixSum ==
    MergedFresh =>
        \A k \in 1 .. Len(merged_data) :
            merged_data[k].Cumulative_Abnormal_Returns = Num(PrefixTotal(merged_data, k))

\* Where the abnormal return is a number, so is the cumulative abnormal
\* return, the sum of the abnormal returns up to that row that are numbers;
\* where it is NaN, the cumulative abnormal return is NaN.
PrefixSumWhereNumber ==
    MergedFresh =>
        \A k \in 1 .. Len(merged_data) :
            merged_data[k].Cumulative_Abnormal_Returns =
                IF IsNaN(merged_data[k].Abnormal_Returns) THEN NaN
                ELSE Num(PrefixTotal(merged_data, k))

\* The frames the batch of MassStatistics.py has passed to calculate_rsi
\* and calculate_returns for the current event and holds after their return.
Derived == script = "MassStatistics" /\ pc \in {"check_date", "analyze"}

\* The frames attempt3.py downloaded, which batch_analyze passes to
\* analyze_event.
A3Downloaded ==
    [t \in {events[i].stock_symbol : i \in 1 .. Len(events)} |->
        DownloadRange(provider[t], start_date, end_date)]

\* attempt3.py analyze_event leaves the frames it is given as they were
\* downloaded.
A3InputsKept ==
    (script = "attempt3" /\ pc \in {"a3_batch", "a3_tests", "done"}) =>
        /\ stock_data = A3Downloaded
        /\ market_data = DownloadRange(provider[market_symbol], start_date, end_date)

\* C11: after calculate_rsi and calculate_returns return, and after
\* analyze_event of attempt3.py returns, the stock and benchmark frames the
\* caller passed in have the columns and the values they had before the call.
C11_CopyOnDerive ==
    /\ Derived =>
        /\ stock_data = provider[stock_symbol]
        /\ market_data = provider[market_symbol]
    /\ A3InputsKept

\* calculate_rsi and calculate_returns keep the rows of the frames they are
\* given and the values of the columns these had: they only add columns.
DerivedColumnsOnly ==
    Derived =>
        /\ Len(stock_data) = Len(provider[stock_symbol])
        /\ Len(market_data) = Len(provider[market_symbol])
        /\ \A i \in 1 .. Len(stock_data) :
              \A f \in DOMAIN provider[stock_symbol][i] :
                  stock_data[i][f] = provider[stock_symbol][i][f]
        /\ \A i \in 1 .. Len(market_data) :
              \A f \in DOMAIN provider[market_symbol][i] :
                  market_data[i][f] = provider[market_symbol][i][f]

\* The number of rows of a frame before and after a date.
CountBefore(frame, ed) == Cardinality({i \in 1 .. Len(frame) : frame[i].Date < ed})
CountAfter(frame, ed) == Cardinality({i \in 1 .. Len(frame) : frame[i].Date > ed})

\* The four partitions of the j-th event of attempt3.py each have window
\* rows or more.
Sufficient(j) ==
    LET ed == events[j].event_date.day
        df == stock_data[events[j].stock_symbol]
    IN  /\ CountBefore(df, ed) >= window
        /\ CountAfter(df, ed) >= window
        /\ CountBefore(market_data, ed) >= window
        /\ CountAfter(market_data, ed) >= window

\* batch_analyze is running or has returned.
InBatch == script = "attempt3" /\ pc \in {"a3_batch", "a3_tests", "done"}

\* C12: the result map of batch_analyze holds the ticker of an event it has
\* processed exactly when each of the event's four partitions has window
\* rows or more; the before and after windows of a result hold exactly
\* window rows, the nearest to the event date; and batch_analyze returns
\* only when it has processed every event, with no exception.
C12_InsufficientWindow ==
    InBatch =>
        /\ \A j \in 1 .. ei :
              Sufficient(j) <=> (events[j].stock_symbol \in Range(ResultKeys))
        /\ \A i \in 1 .. Len(results) : \E j \in 1 .. ei :
              /\ events[j].stock_symbol = results[i].key
              /\ Len(results[i].value.Before_Window) = window
              /\ Len(results[i].value.After_Window) = window
              /\ \A d \in Index(stock_data[results[i].key]) :
                    d \in Index(results[i].value.Before_Window)
                        \cup Index(results[i].value.After_Window)
                    \/ d = events[j].event_date.day
                    \/ (\A e \in Index(results[i].value.Before_Window) : d < e)
                    \/ (\A e \in Index(results[i].value.After_Window) : d > e)
        /\ pc # "a3_batch" => ei = Len(events)
        /\ exc = "none"

\* An event skipped for want of rows, a later event analyzed, and a result
\* whose before window is cut to window rows.
C12_Witness ==
    /\ InBatch
    /\ \E j, k \in 1 .. ei :
          /\ j < k
          /\ ~Sufficient(j)
          /\ events[j].stock_symbol \notin Range(ResultKeys)
          /\ events[k].stock_symbol \in Range(ResultKeys)
          /\ CountBefore(stock_data[events[k].stock_symbol],
                         events[k].event_date.day) > window

\* The abnormal returns, NaN left out, of the rows of the joined frame from
\* the event date to window days after it.
PostEventSample ==
    Column(SelectSeq(merged_data,
                     LAMBDA r : /\ event_date <= r.Date
                                /\ r.Date <= event_date + window
                                /\ ~IsNaN(r.Abnormal_Returns)),
           "Abnormal_Returns")

\* The record MassStatistics.py has just appended has the sum of the
\* post-event sample as its CAR and the test of that sample as its t
\* statistic and p-value.
MassSampleAndCAR ==
    JustRecorded =>
        /\ Last(summary_rows).CAR = SeriesSum(PostEventSample)
        /\ Last(summary_rows).T_stat = Ttest1Samp(PostEventSample).statistic
        /\ Last(summary_rows).P_value = Ttest1Samp(PostEventSample).pvalue

\* statistics.py has made its test.
StatTested == script = "statistics" /\ pc \in {"stat_volatility", "done"}

\* C13: the sample of the one-sample test is the abnormal returns, NaN left
\* out, of the rows of the event window on and after the event date, and the
\* CAR reported is the sum of that sample: in the record of an event of
\* MassStatistics.py and in the results of statistics.py.
C13_SampleAndCAR ==
    /\ MassSampleAndCAR
    /\ StatTested =>
        /\ out.abnormal_returns = PostEventSample
        /\ out.event_window_CAR = SeriesSum(PostEventSample)
        /\ out.t_stat = Ttest1Samp(PostEventSample).statistic
====
